---- MODULE Spec2Model ----
(***************************************************************************)
(* Model of winpty's agent/Terminal.cc: the encoder that turns console     *)
(* rows (CHAR_INFO cells) into a stream of writes of ANSI escape sequences *)
(* and UTF-8 text.  Bytes are modelled as integers 0..255, a write as a    *)
(* sequence of bytes, and the output of one operation as the sequence of   *)
(* the writes it made on the NamedPipe.                                    *)
(***************************************************************************)
EXTENDS Integers, Sequences, FiniteSets, TLC

(***************************************************************************)
(* Bounds of the model.                                                    *)
(***************************************************************************)
MaxRow == 2
MaxCol == 1
MaxWidth == 2
MaxDrift == 2
MaxOps == 3
MaxModeOps == 4

(***************************************************************************)
(* Constants of Terminal.cc and of the Windows console API.                *)
(***************************************************************************)
FOREGROUND_BLUE == 1
FOREGROUND_GREEN == 2
FOREGROUND_RED == 4
FOREGROUND_INTENSITY == 8
BACKGROUND_BLUE == 16
BACKGROUND_GREEN == 32
BACKGROUND_RED == 64
BACKGROUND_INTENSITY == 128

COLOR_ATTRIBUTE_MASK ==
    FOREGROUND_BLUE + FOREGROUND_GREEN + FOREGROUND_RED + FOREGROUND_INTENSITY
    + BACKGROUND_BLUE + BACKGROUND_GREEN + BACKGROUND_RED + BACKGROUND_INTENSITY

FLAG_RED == 1
FLAG_GREEN == 2
FLAG_BLUE == 4
FLAG_BRIGHT == 8

BLACK == 0
DKGRAY == BLACK + FLAG_BRIGHT
LTGRAY == FLAG_RED + FLAG_GREEN + FLAG_BLUE
WHITE == LTGRAY + FLAG_BRIGHT

SGR_FORE == 30
SGR_FORE_HI == 90
SGR_BACK == 40
SGR_BACK_HI == 100

WINPTY_COMMON_LVB_LEADING_BYTE == 256
WINPTY_COMMON_LVB_TRAILING_BYTE == 512

\* #define CSI "\x1b["
CSI == <<27, 91>>

(***************************************************************************)
(* Bit tests.  Every mask tested by the code is a single bit, so           *)
(* (x & flag) != 0 is a test of one binary digit.                          *)
(***************************************************************************)
HasBit(x, flag) == (x \div flag) % 2 = 1

\* color & ~FLAG_BRIGHT
ClearBright(color) == IF HasBit(color, FLAG_BRIGHT) THEN color - FLAG_BRIGHT ELSE color

(***************************************************************************)
(* outUInt: the decimal digits of n, most significant first.               *)
(***************************************************************************)
RECURSIVE outUInt(_)
outUInt(n) ==
    IF n \div 10 = 0 THEN <<48 + (n % 10)>>
    ELSE Append(outUInt(n \div 10), 48 + (n % 10))

(***************************************************************************)
(* outputSetColorSgrParams: the bytes appended for one colour channel.     *)
(***************************************************************************)
\* outputSetColorSgrParams that sends a bright colour as its 9X/10X code
\* alone, without the 3X/4X fallback.
outputSetColorSgrParamsBrightOnly(isFore, color) ==
    LET sgrBase == IF isFore THEN SGR_FORE ELSE SGR_BACK
        colorBase == ClearBright(color)
    IN  IF HasBit(color, FLAG_BRIGHT)
        THEN <<59>> \o outUInt(sgrBase + (SGR_FORE_HI - SGR_FORE) + colorBase)
        ELSE <<59>> \o outUInt(sgrBase + color)

outputSetColorSgrParams(isFore, color) ==
    LET sgrBase == IF isFore THEN SGR_FORE ELSE SGR_BACK
        colorBase == ClearBright(color)
    IN  IF HasBit(color, FLAG_BRIGHT)
        THEN <<59>> \o outUInt(sgrBase + colorBase) \o <<59>>
                 \o outUInt(sgrBase + (SGR_FORE_HI - SGR_FORE) + colorBase)
        ELSE <<59>> \o outUInt(sgrBase + color)

(***************************************************************************)
(* The fore / back values sendLine derives from a console attribute.       *)
(***************************************************************************)
ForeOf(color) ==
      (IF HasBit(color, FOREGROUND_RED) THEN FLAG_RED ELSE 0)
    + (IF HasBit(color, FOREGROUND_GREEN) THEN FLAG_GREEN ELSE 0)
    + (IF HasBit(color, FOREGROUND_BLUE) THEN FLAG_BLUE ELSE 0)
    + (IF HasBit(color, FOREGROUND_INTENSITY) THEN FLAG_BRIGHT ELSE 0)

BackOf(color) ==
      (IF HasBit(color, BACKGROUND_RED) THEN FLAG_RED ELSE 0)
    + (IF HasBit(color, BACKGROUND_GREEN) THEN FLAG_GREEN ELSE 0)
    + (IF HasBit(color, BACKGROUND_BLUE) THEN FLAG_BLUE ELSE 0)
    + (IF HasBit(color, BACKGROUND_INTENSITY) THEN FLAG_BRIGHT ELSE 0)

\* colorFragment with bright white on black sent as the literal colour
\* (37;97) instead of bold.
colorFragmentLiteralWhite(color) ==
    LET fore == ForeOf(color)
        back == BackOf(color)
        params ==
            IF back = BLACK
            THEN IF fore = LTGRAY THEN <<>>
                 ELSE IF fore = DKGRAY THEN <<59, 51, 55, 59, 57, 48>>
                 ELSE outputSetColorSgrParams(TRUE, fore)
            ELSE IF back = WHITE
            THEN <<59, 55>> \o
                 (IF fore = LTGRAY \/ fore = BLACK THEN <<>>
                  ELSE outputSetColorSgrParams(FALSE, fore))
            ELSE outputSetColorSgrParams(TRUE, fore)
                     \o outputSetColorSgrParams(FALSE, back)
        conceal == IF fore = back THEN <<59, 56>> ELSE <<>>
    IN  CSI \o <<48>> \o params \o conceal \o <<109>>

\* colorFragment without the conceal parameter on a white background.
colorFragmentNoConcealOnWhite(color) ==
    LET fore == ForeOf(color)
        back == BackOf(color)
        params ==
            IF back = BLACK
            THEN IF fore = LTGRAY THEN <<>>
                 ELSE IF fore = WHITE THEN <<59, 49>>
                 ELSE IF fore = DKGRAY THEN <<59, 51, 55, 59, 57, 48>>
                 ELSE outputSetColorSgrParams(TRUE, fore)
            ELSE IF back = WHITE
            THEN <<59, 55>> \o
                 (IF fore = LTGRAY \/ fore = BLACK THEN <<>>
                  ELSE outputSetColorSgrParams(FALSE, fore))
            ELSE outputSetColorSgrParams(TRUE, fore)
                     \o outputSetColorSgrParams(FALSE, back)
        conceal == IF fore = back /\ back # WHITE THEN <<59, 56>> ELSE <<>>
    IN  CSI \o <<48>> \o params \o conceal \o <<109>>

\* colorFragment that sets the foreground as a foreground colour on a white
\* background.
colorFragmentWhiteBackFore(color) ==
    LET fore == ForeOf(color)
        back == BackOf(color)
        params ==
            IF back = BLACK
            THEN IF fore = LTGRAY THEN <<>>
                 ELSE IF fore = WHITE THEN <<59, 49>>
                 ELSE IF fore = DKGRAY THEN <<59, 51, 55, 59, 57, 48>>
                 ELSE outputSetColorSgrParams(TRUE, fore)
            ELSE IF back = WHITE
            THEN <<59, 55>> \o
                 (IF fore = LTGRAY \/ fore = BLACK THEN <<>>
                  ELSE outputSetColorSgrParams(TRUE, fore))
            ELSE outputSetColorSgrParams(TRUE, fore)
                     \o outputSetColorSgrParams(FALSE, back)
        conceal == IF fore = back THEN <<59, 56>> ELSE <<>>
    IN  CSI \o <<48>> \o params \o conceal \o <<109>>

(***************************************************************************)
(* The SGR fragment sendLine appends to m_termLine when the colour of a    *)
(* cell differs from m_remoteColor: CSI "0" ... "m".                       *)
(***************************************************************************)
colorFragment(color) ==
    LET fore == ForeOf(color)
        back == BackOf(color)
        params ==
            IF back = BLACK
            THEN IF fore = LTGRAY THEN <<>>
                 ELSE IF fore = WHITE THEN <<59, 49>>
                 ELSE IF fore = DKGRAY THEN <<59, 51, 55, 59, 57, 48>>
                 ELSE outputSetColorSgrParams(TRUE, fore)
            ELSE IF back = WHITE
            THEN <<59, 55>> \o
                 (IF fore = LTGRAY \/ fore = BLACK THEN <<>>
                  ELSE outputSetColorSgrParams(FALSE, fore))
            ELSE outputSetColorSgrParams(TRUE, fore)
                     \o outputSetColorSgrParams(FALSE, back)
        conceal == IF fore = back THEN <<59, 56>> ELSE <<>>
    IN  CSI \o <<48>> \o params \o conceal \o <<109>>

(***************************************************************************)
(* Remapping of the code points 1..6 to box-drawing characters.            *)
(***************************************************************************)
boxDrawing(ch) ==
    CASE ch = 1 -> 9556
      [] ch = 2 -> 9559
      [] ch = 3 -> 9562
      [] ch = 4 -> 9565
      [] ch = 5 -> 9553
      [] ch = 6 -> 9552
      [] OTHER -> ch

(***************************************************************************)
(* WideCharToMultiByte(CP_UTF8, 0, &ch, 1, ...) for one 16-bit wchar_t.    *)
(* A lone surrogate is converted to U+FFFD.                                *)
(***************************************************************************)
WideCharToMultiByte(ch) ==
    LET c == IF ch >= 55296 /\ ch <= 57343 THEN 65533 ELSE ch
    IN  IF c < 128 THEN <<c>>
        ELSE IF c < 2048 THEN <<192 + (c \div 64), 128 + (c % 64)>>
        ELSE <<224 + (c \div 4096), 128 + ((c \div 64) % 64), 128 + (c % 64)>>

\* The bytes mbstr[0 .. mblen-1] after the mblen <= 0 fallback.
glyphBytes(ch) ==
    LET mb == WideCharToMultiByte(boxDrawing(ch))
    IN  IF Len(mb) <= 0 THEN <<63>> ELSE mb


(***************************************************************************)
(* sprintf("%d", n).                                                       *)
(***************************************************************************)
sprintfD(n) == IF n < 0 THEN <<45>> \o outUInt(0 - n) ELSE outUInt(n)

(***************************************************************************)
(* The fixed strings the encoder writes.                                   *)
(***************************************************************************)
\* CSI"0m" CSI"1;1H" CSI"2J"
ClearHome == CSI \o <<48, 109>> \o CSI \o <<49, 59, 49, 72>> \o CSI \o <<50, 74>>
\* CSI"2K"
EraseLine == CSI \o <<50, 75>>
\* CSI"?25l"
HideCursor == CSI \o <<63, 50, 53, 108>>
\* CSI"?25h"
ShowCursor == CSI \o <<63, 50, 53, 104>>
\* "\r" and "\r\n"
CR == <<13>>
CRLF == <<13, 10>>

\* sendLineCell with length left alone after a colour fragment, so that a
\* fragment followed only by spaces is cut from the write.
sendLineCellCutColor(cell, st, consoleMode) ==
    LET color == cell.Attributes % (COLOR_ATTRIBUTE_MASK + 1)
        emit == color # st.remoteColor /\ ~consoleMode
        termLine1 == IF emit THEN st.termLine \o colorFragment(color)
                     ELSE st.termLine
        mb == glyphBytes(cell.ch)
    IN  IF HasBit(cell.Attributes, WINPTY_COMMON_LVB_TRAILING_BYTE)
        THEN [termLine |-> termLine1, length |-> st.length, remoteColor |-> color]
        ELSE IF Len(mb) = 1 /\ mb[1] = 32
        THEN [termLine |-> Append(termLine1, 32), length |-> st.length,
              remoteColor |-> color]
        ELSE [termLine |-> termLine1 \o mb, length |-> Len(termLine1 \o mb),
              remoteColor |-> color]

\* sendLineCell that encodes a trailing-byte cell like any other cell.
sendLineCellNoSkip(cell, st, consoleMode) ==
    LET color == cell.Attributes % (COLOR_ATTRIBUTE_MASK + 1)
        emit == color # st.remoteColor /\ ~consoleMode
        termLine1 == IF emit THEN st.termLine \o colorFragment(color)
                     ELSE st.termLine
        length1 == IF emit THEN Len(termLine1) ELSE st.length
        mb == glyphBytes(cell.ch)
    IN  IF Len(mb) = 1 /\ mb[1] = 32
        THEN [termLine |-> Append(termLine1, 32), length |-> length1,
              remoteColor |-> color]
        ELSE [termLine |-> termLine1 \o mb, length |-> Len(termLine1 \o mb),
              remoteColor |-> color]

(***************************************************************************)
(* One pass of the loop of sendLine over the cell lineData[i]: st holds    *)
(* m_termLine, length and m_remoteColor.                                   *)
(***************************************************************************)
sendLineCell(cell, st, consoleMode) ==
    LET color == cell.Attributes % (COLOR_ATTRIBUTE_MASK + 1)
        emit == color # st.remoteColor /\ ~consoleMode
        termLine1 == IF emit THEN st.termLine \o colorFragment(color)
                     ELSE st.termLine
        length1 == IF emit THEN Len(termLine1) ELSE st.length
        mb == glyphBytes(cell.ch)
    IN  IF HasBit(cell.Attributes, WINPTY_COMMON_LVB_TRAILING_BYTE)
        THEN [termLine |-> termLine1, length |-> length1, remoteColor |-> color]
        ELSE IF Len(mb) = 1 /\ mb[1] = 32
        THEN [termLine |-> Append(termLine1, 32), length |-> length1,
              remoteColor |-> color]
        ELSE [termLine |-> termLine1 \o mb, length |-> Len(termLine1 \o mb),
              remoteColor |-> color]

\* The loop of sendLine from cell i (1-based) on.
RECURSIVE sendLineLoop(_, _, _, _)
sendLineLoop(lineData, i, st, consoleMode) ==
    IF i > Len(lineData) THEN st
    ELSE sendLineLoop(lineData, i + 1,
                      sendLineCell(lineData[i], st, consoleMode), consoleMode)

\* sendLineBuffer with m_remoteColor set to -1 before the loop.
sendLineBufferUnset(lineData, remoteColor, consoleMode) ==
    sendLineLoop(lineData, 1,
                 [termLine |-> <<>>, length |-> 0, remoteColor |-> -1],
                 consoleMode)

\* m_termLine.clear(); int length = 0; the loop.
sendLineBuffer(lineData, remoteColor, consoleMode) ==
    sendLineLoop(lineData, 1,
                 [termLine |-> <<>>, length |-> 0, remoteColor |-> remoteColor],
                 consoleMode)

\* hideTerminalCursor without the early return on m_cursorHidden.
hideTerminalCursorAlways(cursorHidden, consoleMode) ==
    [out |-> IF ~consoleMode THEN <<HideCursor>> ELSE <<>>, cursorHidden |-> TRUE]

\* hideTerminalCursor without its write.
hideTerminalCursorQuiet(cursorHidden, consoleMode) ==
    [out |-> <<>>, cursorHidden |-> TRUE]

(***************************************************************************)
(* hideTerminalCursor: the writes it makes and the new m_cursorHidden.     *)
(***************************************************************************)
hideTerminalCursor(cursorHidden, consoleMode) ==
    IF cursorHidden THEN [out |-> <<>>, cursorHidden |-> cursorHidden]
    ELSE [out |-> IF ~consoleMode THEN <<HideCursor>> ELSE <<>>,
          cursorHidden |-> TRUE]

(***************************************************************************)
(* moveTerminalToLine: the writes it makes and the new m_remoteLine.       *)
(***************************************************************************)
RECURSIVE moveDown(_, _, _, _)
moveDown(line, remoteLine, consoleMode, written) ==
    IF line > remoteLine
    THEN moveDown(line, remoteLine + 1, consoleMode,
                  IF ~consoleMode THEN Append(written, CRLF) ELSE written)
    ELSE [out |-> written, remoteLine |-> remoteLine]

\* moveTerminalToLine moving down with one Cursor Down (CSI n B) of n rows.
moveTerminalToLineJump(line, remoteLine, consoleMode) ==
    IF line < remoteLine
    THEN [out |-> IF ~consoleMode
                  THEN << CR \o CSI \o sprintfD(remoteLine - line) \o <<65>> >>
                  ELSE <<>>,
          remoteLine |-> line]
    ELSE IF line > remoteLine
    THEN [out |-> IF ~consoleMode
                  THEN << CR \o CSI \o sprintfD(line - remoteLine) \o <<66>> >>
                  ELSE <<>>,
          remoteLine |-> line]
    ELSE [out |-> <<CR>>, remoteLine |-> remoteLine]

\* moveTerminalToLine moving up one row too many.
moveTerminalToLineOffByOne(line, remoteLine, consoleMode) ==
    IF line < remoteLine
    THEN [out |-> IF ~consoleMode
                  THEN << CR \o CSI \o sprintfD(remoteLine - line + 1) \o <<65>> >>
                  ELSE <<>>,
          remoteLine |-> line]
    ELSE IF line > remoteLine
    THEN moveDown(line, remoteLine, consoleMode, <<>>)
    ELSE [out |-> <<CR>>, remoteLine |-> remoteLine]

moveTerminalToLine(line, remoteLine, consoleMode) ==
    IF line < remoteLine
    THEN [out |-> IF ~consoleMode
                  THEN << CR \o CSI \o sprintfD(remoteLine - line) \o <<65>> >>
                  ELSE <<>>,
          remoteLine |-> line]
    ELSE IF line > remoteLine
    THEN moveDown(line, remoteLine, consoleMode, <<>>)
    ELSE [out |-> <<CR>>, remoteLine |-> remoteLine]


(***************************************************************************)
(* The terminal at the other end of the pipe, as far as the written bytes  *)
(* drive it: the row of its cursor and whether its cursor is hidden.       *)
(* LF moves down one row, CSI n A moves up n rows, CSI r;c H moves to row  *)
(* r - 1, CSI ?25l hides the cursor and CSI ?25h reveals it.               *)
(***************************************************************************)
IsDigit(b) == b >= 48 /\ b <= 57

RECURSIVE ParseUInt(_, _)
ParseUInt(digits, acc) ==
    IF digits = <<>> \/ ~IsDigit(Head(digits)) THEN acc
    ELSE ParseUInt(Tail(digits), 10 * acc + (Head(digits) - 48))

\* The index of the final byte of the control sequence that starts at k.
RECURSIVE CsiEnd(_, _)
CsiEnd(w, j) ==
    IF j > Len(w) THEN Len(w)
    ELSE IF w[j] >= 64 /\ w[j] <= 126 THEN j
    ELSE CsiEnd(w, j + 1)

TermCsi(t, params, final) ==
    LET n == IF params = <<>> THEN 1 ELSE ParseUInt(params, 0)
    IN  IF final = 65 THEN [t EXCEPT !.row = t.row - n]
        ELSE IF final = 72 THEN [t EXCEPT !.row = n - 1]
        ELSE IF final = 108 /\ params = <<63, 50, 53>> THEN [t EXCEPT !.hidden = TRUE]
        ELSE IF final = 104 /\ params = <<63, 50, 53>> THEN [t EXCEPT !.hidden = FALSE]
        ELSE t

RECURSIVE TermScan(_, _, _)
TermScan(t, w, k) ==
    IF k > Len(w) THEN t
    ELSE IF w[k] = 10 THEN TermScan([t EXCEPT !.row = t.row + 1], w, k + 1)
    ELSE IF w[k] = 27 /\ k < Len(w) /\ w[k + 1] = 91
    THEN LET e == CsiEnd(w, k + 2)
         IN  TermScan(TermCsi(t, SubSeq(w, k + 2, e - 1), w[e]), w, e + 1)
    ELSE TermScan(t, w, k + 1)

RECURSIVE TermRun(_, _)
TermRun(t, writes) ==
    IF writes = <<>> THEN t
    ELSE TermRun(TermScan(t, Head(writes), 1), Tail(writes))

(***************************************************************************)
(* State.  m_* are the fields of Terminal.  out is the sequence of writes  *)
(* made on m_output by the last operation, call is that operation with its *)
(* arguments, pre the fields the operation read (and the terminal) as they *)
(* were before it.                                                         *)
(* term is the terminal the written bytes have driven so far.  log is the  *)
(* record of a whole session, kept only by SpecE2E.                        *)
(***************************************************************************)
VARIABLES m_remoteLine, m_cursorHidden, m_cursorPos, m_remoteColor,
          m_consoleMode, out, call, pre, term, log

encVars == <<m_remoteLine, m_cursorHidden, m_cursorPos, m_remoteColor, m_consoleMode>>
vars == <<m_remoteLine, m_cursorHidden, m_cursorPos, m_remoteColor,
          m_consoleMode, out, call, pre, term, log>>

EncState ==
    [remoteLine |-> m_remoteLine, cursorHidden |-> m_cursorHidden,
     remoteColor |-> m_remoteColor, consoleMode |-> m_consoleMode,
     term |-> term]

Call(op, sendClearFirst, line, lineData, pos, mode) ==
    [op |-> op, sendClearFirst |-> sendClearFirst, line |-> line,
     lineData |-> lineData, pos |-> pos, mode |-> mode]

Abs(x) == IF x < 0 THEN 0 - x ELSE x

\* The model follows the terminal only while its row stays within MaxDrift
\* rows of m_remoteLine.
InDrift(remoteLine, t) == Abs(remoteLine - t.row) <= MaxDrift

(***************************************************************************)
(* Terminal::Terminal                                                      *)
(***************************************************************************)
Init ==
    /\ m_remoteLine = 0
    /\ m_cursorHidden = FALSE
    /\ m_cursorPos = <<0, 0>>
    /\ m_remoteColor = -1
    /\ m_consoleMode = FALSE
    /\ out = <<>>
    /\ call = Call("init", FALSE, 0, <<>>, <<0, 0>>, 0)
    /\ pre = [remoteLine |-> 0, cursorHidden |-> FALSE, remoteColor |-> -1,
              consoleMode |-> FALSE, term |-> [row |-> 0, hidden |-> FALSE]]
    /\ term = [row |-> 0, hidden |-> FALSE]
    /\ log = <<>>

(***************************************************************************)
(* Terminal::setConsoleMode                                                *)
(***************************************************************************)
setConsoleMode(mode) ==
    /\ m_consoleMode' = IF mode = 1 THEN TRUE ELSE FALSE
    /\ UNCHANGED <<m_remoteLine, m_cursorHidden, m_cursorPos, m_remoteColor>>
    /\ out' = <<>>
    /\ call' = Call("setConsoleMode", FALSE, 0, <<>>, <<0, 0>>, mode)
    /\ pre' = EncState
    /\ term' = term

\* reset that leaves m_remoteColor as it is.
resetKeepColor(sendClearFirst, newLine) ==
    /\ out' = IF sendClearFirst /\ ~m_consoleMode THEN <<ClearHome>> ELSE <<>>
    /\ m_remoteLine' = newLine
    /\ m_cursorHidden' = FALSE
    /\ m_cursorPos' = <<0, newLine>>
    /\ UNCHANGED <<m_remoteColor, m_consoleMode>>
    /\ call' = Call("reset", sendClearFirst, newLine, <<>>, <<0, 0>>, 0)
    /\ pre' = EncState
    /\ term' = TermRun(term, out')
    /\ InDrift(m_remoteLine', term')

\* reset that sets m_cursorPos to the home position (0, 0).
resetCursorPosHome(sendClearFirst, newLine) ==
    /\ out' = IF sendClearFirst /\ ~m_consoleMode THEN <<ClearHome>> ELSE <<>>
    /\ m_remoteLine' = newLine
    /\ m_cursorHidden' = FALSE
    /\ m_cursorPos' = <<0, 0>>
    /\ m_remoteColor' = -1
    /\ UNCHANGED m_consoleMode
    /\ call' = Call("reset", sendClearFirst, newLine, <<>>, <<0, 0>>, 0)
    /\ pre' = EncState
    /\ term' = TermRun(term, out')
    /\ InDrift(m_remoteLine', term')

(***************************************************************************)
(* Terminal::reset                                                         *)
(***************************************************************************)
reset(sendClearFirst, newLine) ==
    /\ out' = IF sendClearFirst /\ ~m_consoleMode THEN <<ClearHome>> ELSE <<>>
    /\ m_remoteLine' = newLine
    /\ m_cursorHidden' = FALSE
    /\ m_cursorPos' = <<0, newLine>>
    /\ m_remoteColor' = -1
    /\ UNCHANGED m_consoleMode
    /\ call' = Call("reset", sendClearFirst, newLine, <<>>, <<0, 0>>, 0)
    /\ pre' = EncState
    /\ term' = TermRun(term, out')
    /\ InDrift(m_remoteLine', term')

(***************************************************************************)
(* Terminal::sendLine                                                      *)
(***************************************************************************)
sendLine(line, lineData) ==
    LET hide == hideTerminalCursor(m_cursorHidden, m_consoleMode)
        move == moveTerminalToLine(line, m_remoteLine, m_consoleMode)
        erase == IF ~m_consoleMode THEN <<EraseLine>> ELSE <<>>
        buf == sendLineBuffer(lineData, m_remoteColor, m_consoleMode)
    IN  /\ out' = hide.out \o move.out \o erase
                    \o <<SubSeq(buf.termLine, 1, buf.length)>>
        /\ m_cursorHidden' = hide.cursorHidden
        /\ m_remoteLine' = move.remoteLine
        /\ m_remoteColor' = buf.remoteColor
        /\ UNCHANGED <<m_cursorPos, m_consoleMode>>
        /\ call' = Call("sendLine", FALSE, line, lineData, <<0, 0>>, 0)
        /\ pre' = EncState
        /\ term' = TermRun(term, out')
        /\ InDrift(m_remoteLine', term')

\* finishOutput without the test of m_cursorHidden: it always moves and
\* reveals.
finishOutputAlways(newCursorPos) ==
    LET hide == IF newCursorPos # m_cursorPos
                THEN hideTerminalCursor(m_cursorHidden, m_consoleMode)
                ELSE [out |-> <<>>, cursorHidden |-> m_cursorHidden]
        move == moveTerminalToLine(newCursorPos[2], m_remoteLine, m_consoleMode)
        show == IF ~m_consoleMode
                THEN << CSI \o sprintfD(newCursorPos[1] + 1) \o <<71>> \o ShowCursor >>
                ELSE <<>>
    IN  /\ out' = hide.out \o move.out \o show
        /\ m_cursorHidden' = FALSE
        /\ m_remoteLine' = move.remoteLine
        /\ m_cursorPos' = newCursorPos
        /\ UNCHANGED <<m_remoteColor, m_consoleMode>>
        /\ call' = Call("finishOutput", FALSE, 0, <<>>, newCursorPos, 0)
        /\ pre' = EncState
        /\ term' = TermRun(term, out')
        /\ InDrift(m_remoteLine', term')

(***************************************************************************)
(* Terminal::finishOutput                                                  *)
(***************************************************************************)
finishOutput(newCursorPos) ==
    LET hide == IF newCursorPos # m_cursorPos
                THEN hideTerminalCursor(m_cursorHidden, m_consoleMode)
                ELSE [out |-> <<>>, cursorHidden |-> m_cursorHidden]
        move == IF hide.cursorHidden
                THEN moveTerminalToLine(newCursorPos[2], m_remoteLine, m_consoleMode)
                ELSE [out |-> <<>>, remoteLine |-> m_remoteLine]
        show == IF hide.cursorHidden /\ ~m_consoleMode
                THEN << CSI \o sprintfD(newCursorPos[1] + 1) \o <<71>> \o ShowCursor >>
                ELSE <<>>
    IN  /\ out' = hide.out \o move.out \o show
        /\ m_cursorHidden' = FALSE
        /\ m_remoteLine' = move.remoteLine
        /\ m_cursorPos' = newCursorPos
        /\ UNCHANGED <<m_remoteColor, m_consoleMode>>
        /\ call' = Call("finishOutput", FALSE, 0, <<>>, newCursorPos, 0)
        /\ pre' = EncState
        /\ term' = TermRun(term, out')
        /\ InDrift(m_remoteLine', term')

(***************************************************************************)
(* Inputs.                                                                 *)
(***************************************************************************)
Lines == 0 .. MaxRow
Columns == 0 .. MaxCol
Modes == {0, 1, 2}
ModesOff == {0, 2}

\* "A" bright white on black, "B" and " " in the default light gray on
\* black, " " black on blue, and the trailing half of a full-width U+3042.
CellA == [ch |-> 65, Attributes |-> 15]
CellB == [ch |-> 66, Attributes |-> 7]
CellSpace == [ch |-> 32, Attributes |-> 7]
CellSpaceBlue == [ch |-> 32, Attributes |-> 16]
CellTrail == [ch |-> 12354, Attributes |-> 519]
\* A trailing-byte cell holding a space on a blue background.
CellTrailSpace == [ch |-> 32, Attributes |-> 528]

SeqsUpTo(S, n) == UNION {[1 .. k -> S] : k \in 0 .. n}

\* Rows of the position protocol: an empty row, a row of default text and a
\* row that ends in another colour than it starts with.
LineDatas == {<<>>, <<CellB>>, <<CellA, CellSpace>>}
\* Rows of the row renderer.
RowLineDatas ==
    SeqsUpTo({CellA, CellB, CellSpace, CellSpaceBlue, CellTrail}, MaxWidth)
        \cup {<<CellTrailSpace>>, <<CellA, CellTrailSpace>>,
              <<CellTrailSpace, CellA>>, <<CellSpace, CellTrailSpace>>}
\* Rows of the end-to-end session.
E2ELineDatas == SeqsUpTo({CellA, CellB}, 2)

(***************************************************************************)
(* Spec: every operation, on every row and column of the bounds.           *)
(***************************************************************************)
SetConsoleMode == (\E mode \in Modes : setConsoleMode(mode)) /\ UNCHANGED log
Reset ==
    (\E sendClearFirst \in BOOLEAN, newLine \in Lines : reset(sendClearFirst, newLine))
    /\ UNCHANGED log
SendLine ==
    (\E line \in Lines, lineData \in LineDatas : sendLine(line, lineData))
    /\ UNCHANGED log
FinishOutput ==
    (\E first \in Columns, second \in Lines : finishOutput(<<first, second>>))
    /\ UNCHANGED log

Next == SetConsoleMode \/ Reset \/ SendLine \/ FinishOutput

Spec == Init /\ [][Next]_vars


(***************************************************************************)
(* SpecAnsi: the same operations with bypass mode never switched on.       *)
(***************************************************************************)
SetConsoleModeOff == (\E mode \in ModesOff : setConsoleMode(mode)) /\ UNCHANGED log

NextAnsi == SetConsoleModeOff \/ Reset \/ SendLine \/ FinishOutput

SpecAnsi == Init /\ [][NextAnsi]_vars

(***************************************************************************)
(* SpecRow: the row renderer on every row of up to MaxWidth cells, on      *)
(* line 0, in both modes and from every value of m_remoteColor.            *)
(***************************************************************************)
ResetRow == (\E sendClearFirst \in BOOLEAN : reset(sendClearFirst, 0)) /\ UNCHANGED log
SendLineRow == (\E lineData \in RowLineDatas : sendLine(0, lineData)) /\ UNCHANGED log
FinishOutputRow == finishOutput(<<0, 0>>) /\ UNCHANGED log

NextRow == SetConsoleMode \/ ResetRow \/ SendLineRow \/ FinishOutputRow

SpecRow == Init /\ [][NextRow]_vars

(***************************************************************************)
(* SpecE2E: sessions of up to MaxOps operations with bypass off, each      *)
(* recorded in log with the writes it made.                                *)
(***************************************************************************)
Logged == Len(log) < MaxOps /\ log' = Append(log, [call |-> call', out |-> out'])

ResetE2E == (\E sendClearFirst \in BOOLEAN : reset(sendClearFirst, 0)) /\ Logged
SendLineE2E == (\E lineData \in E2ELineDatas : sendLine(0, lineData)) /\ Logged
FinishOutputE2E == (\E first \in {0, 2} : finishOutput(<<first, 0>>)) /\ Logged

NextE2E == ResetE2E \/ SendLineE2E \/ FinishOutputE2E

SpecE2E == Init /\ [][NextE2E]_vars

(***************************************************************************)
(* Sessions of at most MaxModeOps operations with bypass-mode toggles,     *)
(* each recorded in log with the writes it made.                           *)
(***************************************************************************)
LoggedMode ==
    Len(log) < MaxModeOps /\ log' = Append(log, [call |-> call', out |-> out'])

ModeLineDatas == {<<CellA>>, <<CellB>>, <<CellA, CellB>>}

SetConsoleModeLogged == (\E mode \in {0, 1} : setConsoleMode(mode)) /\ LoggedMode
ResetLogged == (\E sendClearFirst \in BOOLEAN : reset(sendClearFirst, 0)) /\ LoggedMode
SendLineLogged == (\E lineData \in ModeLineDatas : sendLine(0, lineData)) /\ LoggedMode
FinishOutputLogged == finishOutput(<<0, 0>>) /\ LoggedMode

NextMode == SetConsoleModeLogged \/ ResetLogged \/ SendLineLogged \/ FinishOutputLogged

SpecMode == Init /\ [][NextMode]_vars

(***************************************************************************)
(* The colour translation of sendLine on its own: the construction draws   *)
(* one cell with any of the 256 colour attributes, and the step appends    *)
(* the fragment sendLine builds for it (l.142-239, m_remoteColor unset).   *)
(***************************************************************************)
ColorAttributes == 0 .. COLOR_ATTRIBUTE_MASK

InitColor ==
    /\ m_remoteLine = 0
    /\ m_cursorHidden = FALSE
    /\ m_cursorPos = <<0, 0>>
    /\ m_remoteColor = -1
    /\ m_consoleMode = FALSE
    /\ out = <<>>
    /\ \E a \in ColorAttributes :
           call = Call("colorFragment", FALSE, 0,
                       <<[ch |-> 65, Attributes |-> a]>>, <<0, 0>>, 0)
    /\ pre = [remoteLine |-> 0, cursorHidden |-> FALSE, remoteColor |-> -1,
              consoleMode |-> FALSE, term |-> [row |-> 0, hidden |-> FALSE]]
    /\ term = [row |-> 0, hidden |-> FALSE]
    /\ log = <<>>

ColorFragment ==
    /\ call.op = "colorFragment"
    /\ out = <<>>
    /\ out' = <<colorFragment(call.lineData[1].Attributes % (COLOR_ATTRIBUTE_MASK + 1))>>
    /\ UNCHANGED <<encVars, call, pre, term, log>>

NextColor == ColorFragment

SpecColor == InitColor /\ [][NextColor]_vars

(***************************************************************************)
(* Vocabulary of the properties.                                           *)
(***************************************************************************)
Last(w) == w[Len(w)]
IsPrefix(p, w) == Len(p) <= Len(w) /\ SubSeq(w, 1, Len(p)) = p
EndsWith(w, p) == Len(p) <= Len(w) /\ SubSeq(w, Len(w) - Len(p) + 1, Len(w)) = p
Contains(w, p) == \E k \in 1 .. (Len(w) - Len(p) + 1) : SubSeq(w, k, k + Len(p) - 1) = p

IsSendLine == call.op = "sendLine"
IsFinish == call.op = "finishOutput"
IsReset == call.op = "reset"

\* The number of writes hideTerminalCursor made in the last operation that
\* called it with bypass off.
HideWrites == IF pre.cursorHidden THEN 0 ELSE 1

\* The movement from row b to row target, byte by byte (rows are below 10).
ExpectedMove(b, target) ==
    IF target < b THEN << <<13, 27, 91, 48 + (b - target), 65>> >>
    ELSE IF target > b THEN [k \in 1 .. (target - b) |-> <<13, 10>>]
    ELSE << <<13>> >>

\* The colour, and the significance, of cell i of the row last rendered.
CellColor(i) == call.lineData[i].Attributes % 256
CellTrailing(i) == (call.lineData[i].Attributes \div 512) % 2 = 1
CellIsSpace(i) == call.lineData[i].ch = 32
CellVisible(i) == ~CellTrailing(i) /\ ~CellIsSpace(i)

\* The length of the row buffer once cells 1 .. i have been appended.
EndOffset(i) ==
    Len(sendLineBuffer(SubSeq(call.lineData, 1, i), pre.remoteColor,
                       pre.consoleMode).termLine)

(***************************************************************************)
(* C1 as claimed: every sendLine call makes exactly one write on the pipe. *)
(***************************************************************************)
C1_OneWritePerRow == IsSendLine => Len(out) = 1

(***************************************************************************)
(* C1 amended: sendLine writes the row content (colour fragments and       *)
(* glyphs) in exactly one write, the last of the call; hide-cursor, every  *)
(* movement fragment and erase-line are earlier writes of their own.  With *)
(* bypass off a call makes (1 if the cursor was shown) + (one per row      *)
(* moved down, else 1) + 2 writes; with bypass on it makes the content     *)
(* write, preceded by a carriage-return write when the row is unchanged.   *)
(***************************************************************************)
C1_RowContentIsLastWrite ==
    IsSendLine =>
        /\ Len(out) >= 1
        /\ ~Contains(Last(out), HideCursor)
        /\ ~Contains(Last(out), EraseLine)
        /\ ~Contains(Last(out), CR)
        /\ \A k \in 1 .. (Len(out) - 1) :
               \/ out[k] \in {HideCursor, EraseLine, CR, CRLF}
               \/ \E n \in 1 .. 9 : out[k] = <<13, 27, 91, 48 + n, 65>>
        /\ ~pre.consoleMode =>
               /\ out[Len(out) - 1] = EraseLine
               /\ Len(out) = HideWrites
                             + (IF call.line > pre.remoteLine
                                THEN call.line - pre.remoteLine ELSE 1)
                             + 2
        /\ pre.consoleMode =>
               Len(out) = (IF call.line = pre.remoteLine THEN 1 ELSE 0) + 1

\* A row of two cells rendered two rows further down with the cursor shown:
\* hide, two movements, erase, content.
C1_Witness ==
    /\ IsSendLine /\ ~pre.consoleMode /\ ~pre.cursorHidden
    /\ call.line = pre.remoteLine + 2
    /\ Len(call.lineData) = 2
    /\ Len(out) = 5

(***************************************************************************)
(* C2 as claimed: with bypass off, every sendLine of a row of width >= 1   *)
(* starts the row content with the colour fragment of its first cell.      *)
(***************************************************************************)
C2_FirstCellAlwaysColored ==
    (IsSendLine /\ ~pre.consoleMode /\ Len(call.lineData) >= 1) =>
        IsPrefix(colorFragment(CellColor(1)), Last(out))

(***************************************************************************)
(* C2 amended: m_remoteColor is carried from one sendLine to the next and  *)
(* unset only by reset.  With bypass off the first cell of a row is        *)
(* preceded by its colour fragment exactly when its colour differs from    *)
(* m_remoteColor as the previous call left it (the colour of the last cell *)
(* of the previous row, or unset after a reset); when it is equal, the row *)
(* content starts with the glyph of the first cell.  Afterwards            *)
(* m_remoteColor is the colour of the last cell of the row.                *)
(***************************************************************************)
C2_FirstCellColoredIffChanged ==
    (IsSendLine /\ ~pre.consoleMode /\ Len(call.lineData) >= 1) =>
        /\ CellColor(1) # pre.remoteColor =>
               IsPrefix(colorFragment(CellColor(1)), Last(out))
        /\ (CellColor(1) = pre.remoteColor /\ ~CellTrailing(1)) =>
               \/ Last(out) = <<>>
               \/ IsPrefix(glyphBytes(call.lineData[1].ch), Last(out))
        /\ m_remoteColor = CellColor(Len(call.lineData))

\* A row that starts with a bright white "A" rendered when m_remoteColor was
\* already bright white on black: the content starts with "A".
C2_Witness ==
    /\ IsSendLine /\ ~pre.consoleMode /\ Len(call.lineData) >= 1
    /\ call.lineData[1] = CellA
    /\ pre.remoteColor = 15
    /\ IsPrefix(<<65>>, Last(out))

(***************************************************************************)
(* C3: while bypass mode is on, no operation writes an escape sequence, a  *)
(* carriage return or a line feed: the written bytes are glyph text only.  *)
(***************************************************************************)
C3_BypassWritesOnlyText ==
    (pre.consoleMode /\ (IsReset \/ IsSendLine \/ IsFinish)) =>
        \A k \in 1 .. Len(out) : \A j \in 1 .. Len(out[k]) :
            out[k][j] \notin {27, 13, 10}

(***************************************************************************)
(* C4: with bypass off moveTerminalToLine(target) from m_remoteLine = b    *)
(* writes one "\r" CSI (b - target) "A" when target < b, target - b        *)
(* writes of "\r\n" when target > b and one "\r" when target = b; in       *)
(* either mode m_remoteLine = target afterwards.  The movement is the part *)
(* of sendLine's writes between hide-cursor and erase-line, and the part   *)
(* of finishOutput's writes between hide-cursor and set-column.            *)
(***************************************************************************)
C4_MoveToRow ==
    /\ IsSendLine =>
           /\ m_remoteLine = call.line
           /\ ~pre.consoleMode =>
                  SubSeq(out, HideWrites + 1, Len(out) - 2)
                      = ExpectedMove(pre.remoteLine, call.line)
    /\ (IsFinish /\ ~pre.consoleMode /\ out # <<>>) =>
           /\ m_remoteLine = call.pos[2]
           /\ SubSeq(out, HideWrites + 1, Len(out) - 1)
                  = ExpectedMove(pre.remoteLine, call.pos[2])

\* A row rendered two rows below m_remoteLine with bypass off.
C4_Witness ==
    /\ IsSendLine /\ ~pre.consoleMode
    /\ call.line = pre.remoteLine + 2
    /\ m_remoteLine = call.line

(***************************************************************************)
(* C5: with bypass off, the erase-line and the row content of every        *)
(* sendLine are written while the terminal's cursor is hidden; and the     *)
(* reveal-cursor fragment is written only by finishOutput, in its last     *)
(* write, right after the set-column fragment of the desired column and    *)
(* after the movement to the desired row.                                  *)
(***************************************************************************)
C5_HiddenWhileDrawing ==
    /\ IsSendLine =>
           /\ Len(out) >= 2
           /\ out[Len(out) - 1] = EraseLine
           /\ TermRun(pre.term, SubSeq(out, 1, Len(out) - 2)).hidden
           /\ term.hidden
    /\ \A k \in 1 .. Len(out) :
           Contains(out[k], ShowCursor) =>
               /\ IsFinish
               /\ k = Len(out)
               /\ out[k] = <<27, 91, 48 + call.pos[1] + 1, 71>> \o ShowCursor
               /\ m_remoteLine = call.pos[2]
               /\ TermRun(pre.term, SubSeq(out, 1, k - 1)).row - pre.term.row
                      = call.pos[2] - pre.remoteLine
               /\ TermRun(pre.term, SubSeq(out, 1, k - 1)).hidden

\* finishOutput reveals the cursor after moving it to another row.
C5_Witness ==
    /\ IsFinish /\ pre.cursorHidden
    /\ call.pos[2] # pre.remoteLine
    /\ Contains(Last(out), ShowCursor)


(***************************************************************************)
(* C6 as claimed: whenever m_cursorHidden is false, m_remoteLine is the    *)
(* row of the terminal's cursor.                                           *)
(***************************************************************************)
C6_BelievedRowIsActualRow == ~m_cursorHidden => m_remoteLine = term.row

(***************************************************************************)
(* C6 amended: sendLine and finishOutput with bypass off move the          *)
(* terminal's cursor by exactly the change of m_remoteLine, so they keep   *)
(* m_remoteLine equal to the terminal's row once it is (whatever           *)
(* m_cursorHidden is).  reset sets m_remoteLine to the row it is given     *)
(* while the terminal stays where it is, or goes to row 0 when the clear   *)
(* is sent; and with bypass on m_remoteLine changes while the terminal     *)
(* does not move.                                                          *)
(***************************************************************************)
C6_RowOpsKeepOffset ==
    /\ ((IsSendLine \/ IsFinish) /\ ~pre.consoleMode) =>
           m_remoteLine - term.row = pre.remoteLine - pre.term.row
    /\ ((IsSendLine \/ IsFinish) /\ pre.consoleMode) => term.row = pre.term.row
    /\ IsReset =>
           /\ m_remoteLine = call.line
           /\ term.row = IF call.sendClearFirst /\ ~pre.consoleMode THEN 0
                         ELSE pre.term.row

\* A row rendered above m_remoteLine with bypass off, from and to a state
\* where m_remoteLine is the terminal's row.
C6_Witness ==
    /\ IsSendLine /\ ~pre.consoleMode
    /\ pre.remoteLine = pre.term.row
    /\ call.line < pre.remoteLine
    /\ m_remoteLine = term.row

(***************************************************************************)
(* The offsets of the row buffer that sendLine counts as significant: the  *)
(* end of every colour fragment and of every glyph other than a space.     *)
(***************************************************************************)
PrevColor(i) == IF i = 1 THEN pre.remoteColor ELSE CellColor(i - 1)
Emitted(i) == ~pre.consoleMode /\ CellColor(i) # PrevColor(i)
FragEnd(i) == EndOffset(i - 1) + Len(colorFragment(CellColor(i)))
SigOffsets ==
    {0} \cup {EndOffset(i) : i \in {j \in 1 .. Len(call.lineData) : CellVisible(j)}}
        \cup {FragEnd(i) : i \in {j \in 1 .. Len(call.lineData) : Emitted(j)}}
SetMax(S) == CHOOSE x \in S : \A y \in S : y <= x

(***************************************************************************)
(* C7 as claimed: the row content written by sendLine is empty or ends     *)
(* with the bytes of a glyph other than a space; it never ends with a      *)
(* colour fragment.                                                        *)
(***************************************************************************)
C7_RowEndsWithVisibleGlyph ==
    IsSendLine =>
        \/ Last(out) = <<>>
        \/ \E i \in 1 .. Len(call.lineData) :
               CellVisible(i) /\ Len(Last(out)) = EndOffset(i)

(***************************************************************************)
(* C7 amended: the row content written by sendLine is the prefix of the    *)
(* row buffer up to the end of the last colour fragment or of the last     *)
(* glyph other than a space, whichever comes later.  Trailing spaces are   *)
(* cut; a colour fragment is transmitted even when only spaces, or         *)
(* nothing, follow it.  The written bytes never end with a space.          *)
(***************************************************************************)
C7_RowEndsWithGlyphOrColor ==
    IsSendLine =>
        /\ IsPrefix(Last(out),
                    sendLineBuffer(call.lineData, pre.remoteColor,
                                   pre.consoleMode).termLine)
        /\ Len(Last(out)) = SetMax(SigOffsets)
        /\ Last(out) # <<>> => Last(Last(out)) # 32

\* A row whose last cell is a default space after a bright white "A": the
\* content ends with the colour fragment of the space.
C7_Witness ==
    /\ IsSendLine /\ ~pre.consoleMode
    /\ call.lineData = <<CellA, CellSpace>>
    /\ EndsWith(Last(out), <<65, 27, 91, 48, 109>>)

(***************************************************************************)
(* C8: every cell whose glyph is cut from the row content by the           *)
(* significant length is a space in the default colour (light gray on      *)
(* black).                                                                 *)
(***************************************************************************)
C8_CutsOnlyDefaultSpaces ==
    IsSendLine =>
        \A i \in 1 .. Len(call.lineData) :
            (~CellTrailing(i) /\ EndOffset(i) > Len(Last(out))) =>
                (CellIsSpace(i) /\ CellColor(i) = 7)

(***************************************************************************)
(* C9: a finishOutput that follows a finishOutput with the same            *)
(* coordinates writes nothing and changes no field of the encoder.         *)
(***************************************************************************)
C9_FinishIdempotent ==
    [][(IsFinish /\ call'.op = "finishOutput" /\ call'.pos = call.pos) =>
           (out' = <<>> /\ UNCHANGED encVars)]_vars

\* The second finishOutput has acted: it wrote nothing with bypass off
\* although the cursor position was one reset cannot have set (column 1), so
\* its coordinates are those of the finishOutput before it.
C9_Witness ==
    /\ IsFinish /\ ~pre.consoleMode /\ ~pre.cursorHidden
    /\ out = <<>>
    /\ m_cursorPos = call.pos
    /\ call.pos[1] = 1

(***************************************************************************)
(* The bytes of a recorded session, in the order written.                  *)
(***************************************************************************)
RECURSIVE Flatten(_)
Flatten(writes) ==
    IF writes = <<>> THEN <<>> ELSE Head(writes) \o Flatten(Tail(writes))

RECURSIVE LogWrites(_)
LogWrites(l) == IF l = <<>> THEN <<>> ELSE Head(l).out \o LogWrites(Tail(l))

\* reset(true, 0); sendLine(0, ["A" bright white on black, "B" default], 2);
\* finishOutput((2, 0)).
E2ESession ==
    /\ Len(log) = 3
    /\ log[1].call.op = "reset" /\ log[1].call.sendClearFirst /\ log[1].call.line = 0
    /\ log[2].call.op = "sendLine" /\ log[2].call.line = 0
    /\ log[2].call.lineData = <<[ch |-> 65, Attributes |-> 15], [ch |-> 66, Attributes |-> 7]>>
    /\ log[3].call.op = "finishOutput" /\ log[3].call.pos = <<2, 0>>

\* ESC[0m ESC[1;1H ESC[2J  ESC[?25l  \r  ESC[2K  ESC[0;1m A ESC[0m B
E2EHead ==
    <<27, 91, 48, 109, 27, 91, 49, 59, 49, 72, 27, 91, 50, 74>>
    \o <<27, 91, 63, 50, 53, 108>> \o <<13>> \o <<27, 91, 50, 75>>
    \o <<27, 91, 48, 59, 49, 109>> \o <<65>> \o <<27, 91, 48, 109>> \o <<66>>
\* ESC[3G ESC[?25h
E2ETail == <<27, 91, 51, 71>> \o <<27, 91, 63, 50, 53, 104>>

(***************************************************************************)
(* C10 as claimed: the session writes clear+home, hide-cursor, carriage    *)
(* return, erase-line, the bold fragment, "A", the default fragment, "B",  *)
(* then set-column-3 and reveal-cursor, and nothing else.                  *)
(***************************************************************************)
C10_EndToEndAsClaimed ==
    E2ESession => Flatten(LogWrites(log)) = E2EHead \o E2ETail

(***************************************************************************)
(* C10 amended: as claimed, with one more carriage return between "B" and  *)
(* set-column-3: finishOutput moves to the desired row, which is the row   *)
(* the cursor is on, before it sets the column.                            *)
(***************************************************************************)
C10_EndToEnd ==
    E2ESession => Flatten(LogWrites(log)) = E2EHead \o <<13>> \o E2ETail

\* The session has run.
C10_Witness == E2ESession /\ Len(LogWrites(log)) = 7

(***************************************************************************)
(* C11: reset(sendClearFirst, newLine) writes CSI 0m CSI 1;1H CSI 2J, in   *)
(* one write, exactly when sendClearFirst is true and bypass mode is off,  *)
(* and nothing otherwise; afterwards m_remoteLine = newLine,               *)
(* m_cursorHidden = false, m_cursorPos = (0, newLine), m_remoteColor is    *)
(* unset and m_consoleMode is what it was.                                 *)
(***************************************************************************)
C11_Reset ==
    IsReset =>
        /\ out = IF call.sendClearFirst /\ ~pre.consoleMode
                 THEN << <<27, 91, 48, 109, 27, 91, 49, 59, 49, 72, 27, 91, 50, 74>> >>
                 ELSE <<>>
        /\ m_remoteLine = call.line
        /\ m_cursorHidden = FALSE
        /\ m_cursorPos = <<0, call.line>>
        /\ m_remoteColor = -1
        /\ m_consoleMode = pre.consoleMode

\* A clearing reset to row 1 with bypass off, from a state with the cursor
\* hidden, a colour sent and another row believed.
C11_Witness ==
    /\ IsReset /\ call.sendClearFirst /\ ~pre.consoleMode
    /\ pre.cursorHidden /\ pre.remoteColor # -1 /\ pre.remoteLine # 1
    /\ call.line = 1
    /\ out # <<>>

(***************************************************************************)
(* C17: between operations, if m_cursorHidden is false then m_remoteLine   *)
(* is the row (second component) of m_cursorPos.                           *)
(***************************************************************************)
C17_ShownCursorOnBelievedRow == ~m_cursorHidden => m_remoteLine = m_cursorPos[2]

\* finishOutput has moved the shown cursor to row 2 from another row.
C17_Witness ==
    /\ IsFinish /\ ~m_cursorHidden
    /\ pre.remoteLine # 2
    /\ m_cursorPos[2] = 2 /\ m_remoteLine = 2

(***************************************************************************)
(* Vocabulary of the colour-fragment properties.  The foreground and the   *)
(* background of an attribute are read off its two nibbles (blue 1,        *)
(* green 2, red 4, intensity 8) and brought to the order red 1, green 2,   *)
(* blue 4, bright 8; the parameters of a fragment are the numbers between  *)
(* CSI and the final m, separated by semicolons.                           *)
(***************************************************************************)
SwapRB(n) == ((n \div 4) % 2) + 2 * ((n \div 2) % 2) + 4 * (n % 2) + 8 * (n \div 8)

FragApplied == call.op = "colorFragment" /\ out # <<>>
FragAttr == call.lineData[1].Attributes
FragFore == SwapRB(FragAttr % 16)
FragBack == SwapRB(FragAttr \div 16)
Frag == out[1]

RECURSIVE SgrSplit(_, _)
SgrSplit(bytes, cur) ==
    IF bytes = <<>> THEN <<cur>>
    ELSE IF Head(bytes) = 59 THEN <<cur>> \o SgrSplit(Tail(bytes), 0)
    ELSE SgrSplit(Tail(bytes), 10 * cur + (Head(bytes) - 48))

FragWellFormed ==
    /\ Len(Frag) >= 4
    /\ SubSeq(Frag, 1, 2) = <<27, 91>>
    /\ Frag[Len(Frag)] = 109
    /\ \A k \in 3 .. (Len(Frag) - 1) : IsDigit(Frag[k]) \/ Frag[k] = 59
    /\ \A k \in 3 .. (Len(Frag) - 2) : ~(Frag[k] = 59 /\ Frag[k + 1] = 59)
    /\ Frag[3] # 59 /\ Frag[Len(Frag) - 1] # 59

FragParams == SgrSplit(SubSeq(Frag, 3, Len(Frag) - 1), 0)
HasParam(p) == \E k \in 1 .. Len(FragParams) : FragParams[k] = p

IsForeCode(p) == p \in (30 .. 37) \cup (90 .. 97)
IsBackCode(p) == p \in (40 .. 47) \cup (100 .. 107)
IsBrightCode(p) == p \in (90 .. 97) \cup (100 .. 107)
ForeChannelSet == \E k \in 1 .. Len(FragParams) : IsForeCode(FragParams[k])
BackChannelSet == \E k \in 1 .. Len(FragParams) : IsBackCode(FragParams[k])

\* The colour a background code of the fragment carries: the foreground on
\* an inverted (white) background, the background otherwise.
BackChannelColor == IF FragBack = 15 THEN FragFore ELSE FragBack

\* The non-bright code of the bright colour c immediately followed by its
\* bright code.
PairAt(base, c) ==
    \E k \in 1 .. (Len(FragParams) - 1) :
        /\ FragParams[k] = base + (c - 8)
        /\ FragParams[k + 1] = base + 60 + (c - 8)

BrightPaired ==
    /\ (ForeChannelSet /\ FragFore >= 8) => PairAt(30, FragFore)
    /\ (BackChannelSet /\ BackChannelColor >= 8) => PairAt(40, BackChannelColor)
    /\ \A k \in 1 .. Len(FragParams) :
           IsBrightCode(FragParams[k]) =>
               k > 1 /\ FragParams[k - 1] = FragParams[k] - 60

(***************************************************************************)
(* C12 as claimed: for every one of the 256 pairs, a channel the fragment  *)
(* sets to a bright colour gets that colour's non-bright code immediately  *)
(* followed by its bright code, and a bright code never stands alone or    *)
(* after another colour's code, dark gray on black included.               *)
(***************************************************************************)
C12_BrightAlwaysPaired == FragApplied => BrightPaired

(***************************************************************************)
(* C12 amended: the pairing holds for every pair except dark gray on       *)
(* black, whose fragment is CSI 0;37;90 m: the bright code 90 follows the  *)
(* code of light gray (37), not that of black (30).                        *)
(***************************************************************************)
C12_BrightPairedButDkGrayOnBlack ==
    FragApplied =>
        IF FragFore = 8 /\ FragBack = 0
        THEN FragParams = <<0, 37, 90>>
        ELSE BrightPaired

\* A fragment that sets both channels to bright colours.
C12_Witness ==
    /\ FragApplied
    /\ FragFore = 12 /\ FragBack = 9
    /\ FragParams = <<0, 34, 94, 41, 101>>

(***************************************************************************)
(* C13: for every one of the 256 pairs the fragment ends with the conceal  *)
(* parameter (;8 before the final m) if and only if the foreground equals  *)
(* the background, whichever branch (black, white or other background)     *)
(* built it.                                                               *)
(***************************************************************************)
C13_ConcealIffEqual ==
    FragApplied =>
        (EndsWith(Frag, <<59, 56, 109>>) <=> FragFore = FragBack)

\* White on white has been translated to CSI 0;7;47;107;8m.
C13_Witness ==
    /\ FragApplied
    /\ FragFore = 15 /\ FragBack = 15
    /\ Frag = <<27, 91, 48, 59, 55, 59, 52, 55, 59, 49, 48, 55, 59, 56, 109>>

(***************************************************************************)
(* C14: on a black background the fragment has no background code; for a   *)
(* light-gray foreground it is the bare reset CSI 0m; for a bright-white    *)
(* foreground it has the bold parameter and neither white code (37, 97);   *)
(* for every other foreground it has an explicit foreground code.          *)
(***************************************************************************)
C14_BlackBackground ==
    (FragApplied /\ FragBack = 0) =>
        /\ FragWellFormed
        /\ ~BackChannelSet
        /\ FragFore = 7 => Frag = <<27, 91, 48, 109>>
        /\ FragFore = 15 => HasParam(1) /\ ~HasParam(37) /\ ~HasParam(97)
        /\ FragFore \notin {7, 15} => ForeChannelSet

\* Bright white on black has been translated to CSI 0;1m.
C14_Witness ==
    /\ FragApplied
    /\ FragBack = 0 /\ FragFore = 15
    /\ Frag = <<27, 91, 48, 59, 49, 109>>

(***************************************************************************)
(* C15: on a bright-white background the fragment has the invert           *)
(* parameter and no explicit foreground (3X/9X) code; for a black or       *)
(* light-gray foreground it has no colour code at all; for every other     *)
(* foreground it has a background (4X/10X) code carrying the foreground's  *)
(* colour.                                                                 *)
(***************************************************************************)
C15_WhiteBackground ==
    (FragApplied /\ FragBack = 15) =>
        /\ FragWellFormed
        /\ HasParam(7)
        /\ ~ForeChannelSet
        /\ FragFore \in {0, 7} => ~BackChannelSet
        /\ FragFore \notin {0, 7} =>
               /\ HasParam(40 + (FragFore % 8))
               /\ FragFore >= 8 => HasParam(100 + (FragFore % 8))
               /\ \A k \in 1 .. Len(FragParams) :
                      IsBackCode(FragParams[k]) =>
                          FragParams[k] \in {40 + (FragFore % 8), 100 + (FragFore % 8)}

\* Red on bright white has been translated to CSI 0;7;41m.
C15_Witness ==
    /\ FragApplied
    /\ FragBack = 15 /\ FragFore = 1
    /\ FragAttr = 244
    /\ Frag = <<27, 91, 48, 59, 55, 59, 52, 49, 109>>

\* The row buffer m_termLine once cells 1 .. i have been appended.
RowBuffer(i) ==
    sendLineBuffer(SubSeq(call.lineData, 1, i), pre.remoteColor,
                   pre.consoleMode).termLine

(***************************************************************************)
(* C16: a cell marked as a wide-character trailing byte contributes no     *)
(* glyph bytes, whatever its code point: it appends to the row buffer at   *)
(* most the colour fragment of its colour change, so a row whose other     *)
(* cells are all ASCII is written without any byte above 127, and a row    *)
(* whose other cells hold no space is written without any space.           *)
(***************************************************************************)
C16_TrailingCellNoGlyph ==
    IsSendLine =>
        /\ \A i \in 1 .. Len(call.lineData) :
               CellTrailing(i) =>
                   RowBuffer(i) = RowBuffer(i - 1) \o
                       (IF Emitted(i) THEN colorFragment(CellColor(i)) ELSE <<>>)
        /\ (\A i \in 1 .. Len(call.lineData) :
                ~CellTrailing(i) => call.lineData[i].ch < 128)
               => \A k \in 1 .. Len(Last(out)) : Last(out)[k] < 128
        /\ (\A i \in 1 .. Len(call.lineData) :
                ~CellTrailing(i) => call.lineData[i].ch # 32)
               => \A k \in 1 .. Len(Last(out)) : Last(out)[k] # 32

\* A row of "A" in bright white followed by the trailing half of a wide
\* character in light gray: CSI 0;1m A CSI 0m, without the bytes of U+3042.
C16_Witness ==
    /\ IsSendLine /\ ~pre.consoleMode /\ pre.remoteColor = -1
    /\ call.lineData = <<[ch |-> 65, Attributes |-> 15], [ch |-> 12354, Attributes |-> 519]>>
    /\ Last(out) = <<27, 91, 48, 59, 49, 109, 65, 27, 91, 48, 109>>

\* Whether the terminal's cursor is hidden just before write k of the last
\* operation.
HiddenBefore(k) == TermRun(pre.term, SubSeq(out, 1, k - 1)).hidden

(***************************************************************************)
(* C18 as claimed: with bypass mode off throughout, hide-cursor and        *)
(* reveal-cursor fragments strictly alternate in the output stream,        *)
(* starting with hide-cursor: a hide-cursor is written only while the      *)
(* terminal's cursor is shown and a reveal-cursor only while it is hidden, *)
(* also when reset is called while the cursor is hidden.                   *)
(***************************************************************************)
C18_HideRevealAlternate ==
    \A k \in 1 .. Len(out) :
        /\ Contains(out[k], <<27, 91, 63, 50, 53, 108>>) => ~HiddenBefore(k)
        /\ Contains(out[k], <<27, 91, 63, 50, 53, 104>>) => HiddenBefore(k)

(***************************************************************************)
(* C20 as claimed: with the terminal's cursor visibility driven only by    *)
(* the written hide-cursor and reveal-cursor fragments (visible at first), *)
(* every completed finishOutput leaves m_cursorHidden false and the        *)
(* terminal's cursor visible.                                              *)
(***************************************************************************)
C20_FinishRevealsCursor == IsFinish => (~m_cursorHidden /\ ~term.hidden)

(***************************************************************************)
(* The colour the terminal draws with: the last SGR sequence (CSI ... m)   *)
(* it received, or <<>> at the start and after a clear+home reset.         *)
(***************************************************************************)
RECURSIVE LastSgr(_, _, _)
LastSgr(w, k, acc) ==
    IF k > Len(w) THEN acc
    ELSE IF k < Len(w) /\ w[k] = 27 /\ w[k + 1] = 91
    THEN LET e == CsiEnd(w, k + 2)
         IN  LastSgr(w, e + 1, IF w[e] = 109 THEN SubSeq(w, k, e) ELSE acc)
    ELSE LastSgr(w, k + 1, acc)

RECURSIVE SgrOfWrites(_, _)
SgrOfWrites(acc, writes) ==
    IF writes = <<>> THEN acc
    ELSE SgrOfWrites(
             IF Head(writes) = <<27, 91, 48, 109, 27, 91, 49, 59, 49, 72, 27, 91, 50, 74>>
             THEN <<>>
             ELSE LastSgr(Head(writes), 1, acc),
             Tail(writes))

\* The SGR state of the terminal when the row write of the last operation
\* starts.
PriorSgr ==
    SgrOfWrites(<<>>, LogWrites(SubSeq(log, 1, Len(log) - 1))
                          \o SubSeq(out, 1, Len(out) - 1))

(***************************************************************************)
(* C19 as claimed: after any sequence of reset, sendLine, finishOutput and *)
(* bypass-mode toggles, every glyph other than a space that sendLine       *)
(* writes with bypass off is drawn in its own cell's colour: the last      *)
(* colour fragment of the output stream before the glyph, with no          *)
(* clear+home reset after it, is the fragment of the cell's colour.        *)
(***************************************************************************)
C19_GlyphInOwnColor ==
    (IsSendLine /\ ~pre.consoleMode /\ log # <<>>) =>
        \A i \in 1 .. Len(call.lineData) :
            CellVisible(i) =>
                LastSgr(SubSeq(Last(out), 1, EndOffset(i)), 1, PriorSgr)
                    = colorFragment(CellColor(i))

====
